---- MODULE Spec2Model ----
(***************************************************************************)
(* A model of the blueprint conversion scripts (scripts/convert):          *)
(*   - modify_lean.topological_sort          (SpecTopo)                    *)
(*   - parse_latex.parse_nodes               (SpecParse)                   *)
(*   - modify_lean.write_blueprint_attributes / modify_source (SpecSplice) *)
(*   - modify_lean.insert_docstring_and_attribute (SpecInsert)             *)
(*   - common.Node.to_lean_attribute              (SpecAttr)               *)
(*   - modify_latex.write_latex_source            (SpecRewrite...)         *)
(*   - parse_latex.read_latex_file                (SpecRead)               *)
(* Optional values (Python None) are sequences of length 0 or 1.           *)
(***************************************************************************)
EXTENDS Integers, Sequences, FiniteSets, TLC

(* ---------------- bounds ---------------- *)
\* longest input list handed to topological_sort; node names are 1..MaxNodes
MaxNodes == 3
\* largest number of uses entries (statement and proof together, over all
\* nodes) of a topological_sort input
MaxEdges == 2

VARIABLES
  \* topological_sort
  input,     \* the list the first call was made with
  data,      \* parameter `data` of the running call
  visited,   \* set of names
  result,    \* list under construction / returned
  stack,     \* call stack of visit(): frames [name, todo]
  idx,       \* position of `for node, _ in data`
  tpc,       \* "sort" | "done"
  run,       \* 1: first call, 2: the call on the first call's output
  result1,   \* what the first call returned
  \* parse_nodes
  matches,              \* what ENV_PATTERN.finditer(source) yields, in order
  ppc,                  \* "pass1" | "pass2" | "resolve" | "done" | "KeyError"
  pidx,                 \* position of the running loop
  nodes,                \* list of Node
  name_to_node,         \* name -> position in nodes
  label_to_node,        \* label -> position in nodes
  match_idx_to_node,    \* match position -> position in nodes
  name_to_raw_sources,  \* name -> list of match texts
  uuid_count,           \* how many uuid4() values have been drawn
  plog,                 \* the warnings logged
  \* write_blueprint_attributes
  files,           \* file path -> content, a sequence of characters
  files0,          \* the contents when write_blueprint_attributes was called
  snodes,          \* parameter `nodes`
  spc,             \* "sort" | "loop" | "imports" | "extra" | "done"
  sidx,            \* position of `for node in nodes`
  modified_files,  \* set of file paths
  imported,        \* files that add_blueprint_gen_import has been called on
  upstream_nodes,  \* list of node names
  root_file,       \* content of the generated declaration file
  \* insert_docstring_and_attribute
  warned_to_additive,  \* the module's global flag
  to_additive_log,     \* how many times the to_additive warning was logged
  calls,               \* the declaration texts passed so far, in call order
  outs,                \* what each call returned
  \* Node.to_lean_attribute
  anode,   \* the Node the method is called on
  aargs,   \* [add_uses, add_proof_text, add_proof_uses]
  aout,    \* the list `configs` when the method returns
  apc,     \* "call" | "done"
  \* write_latex_source
  tex,             \* markup file -> content, a sequence of pieces
  tex0,            \* the contents when write_latex_source was called
  tex1,            \* the contents when write_latex_source returned
  raw_sources,     \* name_to_raw_latex_sources as the list of its items
  wnodes,          \* nodes_with_pos: name -> has_lean
  convert_informal,
  wlabel_to_node,  \* label -> name of the node
  wpc,             \* "nodes" | "refs" | "done" | "again"
  widx,            \* position of `for name, raw_latex_sources in ...`
  \* read_latex_file
  rfiles,   \* path -> content of the file, a sequence of pieces
  seen,     \* set of paths
  rstack,   \* call stack of _read(): frames [file, todo, text]
  rout,     \* what read_latex_file returned
  rlog,     \* the warnings logged, in order
  rpc       \* "read" | "done"

tvars == <<input, data, visited, result, stack, idx, tpc, run, result1>>
pvars == <<matches, ppc, pidx, nodes, name_to_node, label_to_node,
           match_idx_to_node, name_to_raw_sources, uuid_count, plog>>
svars == <<files, files0, snodes, spc, sidx, modified_files, imported,
           upstream_nodes, root_file>>
ivars == <<warned_to_additive, to_additive_log, calls, outs>>
avars == <<anode, aargs, aout, apc>>
wvars == <<tex, tex0, tex1, raw_sources, wnodes, convert_informal, wlabel_to_node,
           wpc, widx>>
rvars == <<rfiles, seen, rstack, rout, rlog, rpc>>
vars == <<tvars, pvars, svars, ivars, avars, wvars, rvars>>

(* ---------------- helpers ---------------- *)
Last(s) == s[Len(s)]
Front(s) == SubSeq(s, 1, Len(s) - 1)

\* f with key k set to v (a dict assignment)
Put(f, k, v) == [x \in DOMAIN f \cup {k} |-> IF x = k THEN v ELSE f[x]]

\* parse_nodes is not running
ParseIdle ==
  /\ matches = <<>> /\ ppc = "idle" /\ pidx = 0 /\ nodes = <<>>
  /\ name_to_node = <<>> /\ label_to_node = <<>> /\ match_idx_to_node = <<>>
  /\ name_to_raw_sources = <<>> /\ uuid_count = 0 /\ plog = {}

\* write_blueprint_attributes is not running
SpliceIdle ==
  /\ files = <<>> /\ files0 = <<>> /\ snodes = <<>> /\ spc = "idle" /\ sidx = 0
  /\ modified_files = {} /\ imported = {} /\ upstream_nodes = <<>> /\ root_file = <<>>

\* topological_sort is not running
TopoIdle ==
  /\ input = <<>> /\ data = <<>> /\ visited = {} /\ result = <<>> /\ stack = <<>>
  /\ idx = 0 /\ tpc = "idle" /\ run = 0 /\ result1 = <<>>

\* insert_docstring_and_attribute has not been called in this process
InsertIdle ==
  /\ warned_to_additive = FALSE /\ to_additive_log = 0 /\ calls = <<>> /\ outs = <<>>

\* to_lean_attribute is not running
AttrIdle ==
  /\ anode = <<>> /\ aargs = <<>> /\ aout = <<>> /\ apc = "idle"

\* write_latex_source is not running
RewriteIdle ==
  /\ tex = <<>> /\ tex0 = <<>> /\ tex1 = <<>> /\ raw_sources = <<>> /\ wnodes = <<>>
  /\ convert_informal = FALSE /\ wlabel_to_node = <<>> /\ wpc = "idle" /\ widx = 0

\* read_latex_file is not running
ReadIdle ==
  /\ rfiles = <<>> /\ seen = {} /\ rstack = <<>> /\ rout = <<>> /\ rlog = <<>>
  /\ rpc = "idle"

(* ======================= topological_sort ======================= *)
TopoNames == 1..MaxNodes

TopoNode(n, S, P) == [name |-> n, statement |-> [uses |-> S], proof |-> P]

\* the uses entries <<user, part, used name>> of an input of k nodes
UsesEntries(k) == (1..k) \X {"statement", "proof"} \X TopoNames

PartUses(es, i, part) ==
  {es[j][3] : j \in {x \in DOMAIN es : es[x][1] = i /\ es[x][2] = part}}

\* a list of k nodes named 1..k in list order (names are opaque to the code:
\* only equality and set membership are used); pf says which nodes have a proof
TopoInput(k, es, pf) ==
  [i \in 1..k |->
     TopoNode(i, PartUses(es, i, "statement"),
              IF pf[i] THEN <<[uses |-> PartUses(es, i, "proof")]>> ELSE <<>>)]

\* modify_lean.py:99  (a dict comprehension: the last pair of a name wins)
NameToNode(d) ==
  [n \in {d[i].name : i \in DOMAIN d} |->
     d[CHOOSE i \in DOMAIN d :
         d[i].name = n /\ \A j \in DOMAIN d : d[j].name = n => j <= i]]

\* modify_lean.py:98-102
TopoCall(d) ==
  /\ data' = d
  /\ visited' = {}
  /\ result' = <<>>
  /\ stack' = <<>>
  /\ idx' = 1
  /\ tpc' = "sort"

\* what a mistaken visit() that reads only the statement's uses would iterate
Uses_StatementOnly(node) == node.statement.uses

\* modify_lean.py:110
Uses(node) ==
  node.statement.uses \cup (IF node.proof # <<>> THEN node.proof[1].uses ELSE {})

\* modify_lean.py:104-110: visit(name) called with the callers' frames stk,
\* up to the start of its loop
Visit(name, stk) ==
  IF name \in visited
    THEN /\ visited' = visited
         /\ stack' = stk
    ELSE /\ visited' = visited \cup {name}
         /\ stack' = Append(stk, [name |-> name, todo |-> Uses(NameToNode(data)[name])])

\* modify_lean.py:116-117: one iteration of the root loop
SortRoot ==
  /\ tpc = "sort" /\ stack = <<>> /\ idx <= Len(data)
  /\ Visit(data[idx].name, stack)
  /\ idx' = idx + 1
  /\ UNCHANGED <<input, data, result, tpc, run, result1>>
  /\ UNCHANGED <<pvars, svars, ivars, avars, wvars, rvars>>

\* a loop that never advances: the element stays in the set being iterated
VisitUses_NoAdvance ==
  /\ tpc = "sort" /\ stack # <<>> /\ Last(stack).todo # {}
  /\ \E used \in Last(stack).todo :
       IF used \in DOMAIN NameToNode(data)
         THEN Visit(used, stack)
         ELSE UNCHANGED <<visited, stack>>
  /\ UNCHANGED <<input, data, result, idx, tpc, run, result1>>
  /\ UNCHANGED <<pvars, svars, ivars, avars, wvars, rvars>>

\* modify_lean.py:111-113: one iteration of `for used in uses` (a Python set:
\* the iteration order is not fixed)
VisitUses ==
  /\ tpc = "sort" /\ stack # <<>> /\ Last(stack).todo # {}
  /\ \E used \in Last(stack).todo :
       LET rest == [stack EXCEPT ![Len(stack)].todo = @ \ {used}] IN
       IF used \in DOMAIN NameToNode(data)
         THEN Visit(used, rest)
         ELSE /\ stack' = rest
              /\ UNCHANGED visited
  /\ UNCHANGED <<input, data, result, idx, tpc, run, result1>>
  /\ UNCHANGED <<pvars, svars, ivars, avars, wvars, rvars>>

\* result.insert(0, ...) in place of result.append(...)
VisitReturn_Prepend ==
  /\ tpc = "sort" /\ stack # <<>> /\ Last(stack).todo = {}
  /\ result' = <<NameToNode(data)[Last(stack).name]>> \o result
  /\ stack' = Front(stack)
  /\ UNCHANGED <<input, data, visited, idx, tpc, run, result1>>
  /\ UNCHANGED <<pvars, svars, ivars, avars, wvars, rvars>>

\* modify_lean.py:114: the loop is over, append and return from visit
VisitReturn ==
  /\ tpc = "sort" /\ stack # <<>> /\ Last(stack).todo = {}
  /\ result' = Append(result, NameToNode(data)[Last(stack).name])
  /\ stack' = Front(stack)
  /\ UNCHANGED <<input, data, visited, idx, tpc, run, result1>>
  /\ UNCHANGED <<pvars, svars, ivars, avars, wvars, rvars>>

\* modify_lean.py:119
SortReturn ==
  /\ tpc = "sort" /\ stack = <<>> /\ idx > Len(data)
  /\ tpc' = "done"
  /\ result1' = IF run = 1 THEN result ELSE result1
  /\ UNCHANGED <<input, data, visited, result, stack, idx, run>>
  /\ UNCHANGED <<pvars, svars, ivars, avars, wvars, rvars>>

\* topological_sort applied to its own output
SortAgain ==
  /\ tpc = "done" /\ run = 1
  /\ TopoCall(result)
  /\ run' = 2
  /\ UNCHANGED <<input, result1>>
  /\ UNCHANGED <<pvars, svars, ivars, avars, wvars, rvars>>

InitTopo ==
  /\ \E k \in 0..MaxNodes, m \in 0..MaxEdges :
       \E es \in [1..m -> UsesEntries(k)], pf \in [1..k -> BOOLEAN] :
         input = TopoInput(k, es, pf)
  /\ data = input
  /\ visited = {} /\ result = <<>> /\ stack = <<>> /\ idx = 1
  /\ tpc = "sort" /\ run = 1 /\ result1 = <<>>
  /\ ParseIdle /\ SpliceIdle
  /\ InsertIdle /\ AttrIdle /\ RewriteIdle /\ ReadIdle

NextTopo == SortRoot \/ VisitUses \/ VisitReturn \/ SortReturn \/ SortAgain

SpecTopo == InitTopo /\ [][NextTopo]_vars
SpecTopoFair == InitTopo /\ [][NextTopo]_vars /\ WF_vars(NextTopo)

(* ---------------- properties of topological_sort ---------------- *)
\* node a directly uses the name of node b (statement or proof)
DirectlyUses(a, b) ==
  \/ b.name \in a.statement.uses
  \/ a.proof # <<>> /\ b.name \in a.proof[1].uses

Succ(inp, i) == {j \in DOMAIN inp : DirectlyUses(inp[i], inp[j])}

RECURSIVE Closure(_, _, _)
Closure(inp, S, n) ==
  IF n = 0 THEN S ELSE Closure(inp, S \cup UNION {Succ(inp, i) : i \in S}, n - 1)

\* the indices reachable from i along one or more uses edges inside inp
ReachPlus(inp, i) == Closure(inp, Succ(inp, i), Len(inp))

\* no cycle at all, self-dependencies included
Acyclic(inp) == \A i \in DOMAIN inp : i \notin ReachPlus(inp, i)

\* no cycle through two or more distinct nodes
NoProperCycle(inp) ==
  \A i, j \in DOMAIN inp : i # j /\ j \in ReachPlus(inp, i) => i \notin ReachPlus(inp, j)

IsPermutation(s, t) ==
  /\ Len(s) = Len(t)
  /\ \E f \in [DOMAIN s -> DOMAIN t] :
       /\ \A i, j \in DOMAIN s : i # j => f[i] # f[j]
       /\ \A i \in DOMAIN s : s[i] = t[f[i]]

\* C1: on an input whose uses-graph (inside the input) is acyclic, every
\* directly used node stands strictly before its user in the output.
C1_DependenciesFirst ==
  (tpc = "done" /\ run = 1 /\ Acyclic(input)) =>
    \A a, b \in DOMAIN input :
      DirectlyUses(input[a], input[b]) =>
        \E i, j \in DOMAIN result :
          result[i] = input[b] /\ result[j] = input[a] /\ i < j

\* a finished sort of an acyclic input in which a user stood before a node it
\* uses through its proof, and before one it uses through its statement
C1_Witness ==
  /\ tpc = "done" /\ run = 1 /\ Acyclic(input)
  /\ \E a, b, c \in DOMAIN input :
       /\ a < b /\ a < c
       /\ input[a].proof # <<>> /\ input[b].name \in input[a].proof[1].uses
       /\ input[c].name \in input[a].statement.uses
  /\ result # input

\* C5: topological_sort terminates on every input with pairwise distinct
\* names, cyclic ones included, and what it returns is a permutation of its
\* input.
C5_TerminatesWithPermutation ==
  /\ <>(tpc = "done")
  /\ [](tpc = "done" => IsPermutation(result, data))

\* a finished sort of a three-node input with a cycle through two nodes
C5_Witness ==
  /\ tpc = "done" /\ run = 1
  /\ Len(input) = 3
  /\ ~NoProperCycle(input)
  /\ IsPermutation(result, input)

\* C6 as stated: sorting the output of a sort returns it unchanged, for every
\* input, cyclic ones included.
C6_IdempotentAlways ==
  (tpc = "done" /\ run = 2) => result = result1

\* C6 amended: sorting the output of a sort returns it unchanged whenever the
\* uses-graph has no cycle through two or more distinct nodes.
C6_IdempotentWithoutCycle ==
  (tpc = "done" /\ run = 2 /\ NoProperCycle(input)) => result = result1

\* the second sort has finished on an input that the first sort reordered and
\* that has a self-dependency but no cycle through distinct nodes
C6_Witness ==
  /\ tpc = "done" /\ run = 2 /\ NoProperCycle(input)
  /\ result1 # input
  /\ \E i \in DOMAIN input : i \in Succ(input, i)

(* ========================== parse_nodes ========================== *)
(* Strings that the code takes apart (labels, Lean names) are sequences of *)
(* characters; "node" and the uuid tokens stand for whole substrings.      *)

\* most matches in a scanned document
MaxMatches == 3
\* most \uses entries in a scanned document
MaxUsesEntries == 2

\* parse_latex.py:173: the default statement-like environments
ThmTypes == {"definition", "lemma", "proposition", "theorem", "corollary"}

\* the values uuid.uuid4().hex returns, in the order drawn
UuidTokens == <<"u1", "u2", "u3", "u4", "u5", "u6", "u7", "u8", "u9", "u10">>

Digits == {"0", "1", "2", "3", "4", "5", "6", "7", "8", "9"}

SetMax(S) == CHOOSE x \in S : \A y \in S : y <= x

\* parse_latex.py:159-161
Sanitize(base) ==
  LET colons == {i \in DOMAIN base : base[i] = ":"}
      tail == IF colons = {} THEN base ELSE SubSeq(base, SetMax(colons) + 1, Len(base))
      repl == [i \in DOMAIN tail |-> IF tail[i] \in {"-", " "} THEN "_" ELSE tail[i]]
  IN IF repl # <<>> /\ repl[1] \in Digits THEN <<"_">> \o repl ELSE repl

\* parse_latex.py:154-164; base is None (<<>>) or <<string>>, count is the
\* number of uuid4() values drawn before the call.  Returns the name and the
\* new count.
RECURSIVE generate_new_lean_name(_, _, _)
generate_new_lean_name(visited_names, base, count) ==
  LET b == IF base = <<>> THEN <<"node", "_", UuidTokens[count + 1]>> ELSE Sanitize(base[1])
      c == IF base = <<>> THEN count + 1 ELSE count
  IN IF b \notin visited_names
       THEN [name |-> b, count |-> c]
       ELSE generate_new_lean_name(visited_names, <<b \o <<"_", UuidTokens[c + 1]>>>>, c + 1)

\* parse_latex.py:206-210 and 237-241: a fresh NodePart
NewNodePart(m) ==
  [lean_ok |-> m.leanok, uses |-> {}, uses_raw |-> m.uses, latex_env |-> m.env]

\* a duplicate name that replaces the kept node by the new one
Pass1Step_LastWins ==
  /\ ppc = "pass1" /\ pidx <= Len(matches)
  /\ LET m == matches[pidx] IN
     IF m.env \notin ThmTypes
       THEN UNCHANGED <<nodes, name_to_node, label_to_node, match_idx_to_node,
                        name_to_raw_sources, uuid_count, plog>>
       ELSE
         LET explicit == m.lean # <<>> /\ m.lean[1] # <<>>
             gen == generate_new_lean_name(DOMAIN name_to_node, m.label, uuid_count)
             name == IF explicit THEN m.lean[1] ELSE gen.name
             node == [name |-> name, statement |-> NewNodePart(m), proof |-> <<>>]
             at == Len(nodes) + 1
         IN /\ uuid_count' = IF explicit THEN uuid_count ELSE gen.count
            /\ name_to_raw_sources' =
                 Put(name_to_raw_sources, name,
                     IF name \in DOMAIN name_to_raw_sources
                       THEN Append(name_to_raw_sources[name], m) ELSE <<m>>)
            /\ nodes' = Append(nodes, node)
            /\ name_to_node' = Put(name_to_node, name, at)
            /\ plog' = plog
            /\ match_idx_to_node' = Put(match_idx_to_node, pidx, at)
            /\ label_to_node' = IF m.label # <<>> THEN Put(label_to_node, m.label[1], at)
                                                 ELSE label_to_node
  /\ pidx' = pidx + 1
  /\ UNCHANGED <<matches, ppc>>
  /\ UNCHANGED <<tvars, svars, ivars, avars, wvars, rvars>>

\* parse_latex.py:192-217: one iteration of the statement loop
Pass1Step ==
  /\ ppc = "pass1" /\ pidx <= Len(matches)
  /\ LET m == matches[pidx] IN
     IF m.env \notin ThmTypes
       THEN UNCHANGED <<nodes, name_to_node, label_to_node, match_idx_to_node,
                        name_to_raw_sources, uuid_count, plog>>
       ELSE
         LET explicit == m.lean # <<>> /\ m.lean[1] # <<>>   \* `lean or ...`
             gen == generate_new_lean_name(DOMAIN name_to_node, m.label, uuid_count)
             name == IF explicit THEN m.lean[1] ELSE gen.name
             known == name \in DOMAIN name_to_node
             node == [name |-> name, statement |-> NewNodePart(m), proof |-> <<>>]
             at == IF known THEN name_to_node[name] ELSE Len(nodes) + 1
         IN /\ uuid_count' = IF explicit THEN uuid_count ELSE gen.count
            /\ name_to_raw_sources' =
                 Put(name_to_raw_sources, name,
                     IF name \in DOMAIN name_to_raw_sources
                       THEN Append(name_to_raw_sources[name], m) ELSE <<m>>)
            /\ IF known
                 THEN /\ plog' = plog \cup {[kind |-> "name occurs twice", at |-> pidx]}
                      /\ UNCHANGED <<nodes, name_to_node>>
                 ELSE /\ nodes' = Append(nodes, node)
                      /\ name_to_node' = Put(name_to_node, name, at)
                      /\ plog' = plog
            /\ match_idx_to_node' = Put(match_idx_to_node, pidx, at)
            /\ label_to_node' = IF m.label # <<>> THEN Put(label_to_node, m.label[1], at)
                                                 ELSE label_to_node
  /\ pidx' = pidx + 1
  /\ UNCHANGED <<matches, ppc>>
  /\ UNCHANGED <<tvars, svars, ivars, avars, wvars, rvars>>

\* parse_latex.py:192 and 220: the statement loop is over, the proof loop starts
Pass1End ==
  /\ ppc = "pass1" /\ pidx > Len(matches)
  /\ ppc' = "pass2" /\ pidx' = 1
  /\ UNCHANGED <<matches, nodes, name_to_node, label_to_node, match_idx_to_node,
                 name_to_raw_sources, uuid_count, plog>>
  /\ UNCHANGED <<tvars, svars, ivars, avars, wvars, rvars>>

\* the proof attached to node at, and its text recorded
AttachProof(m, at) ==
  /\ nodes' = [nodes EXCEPT ![at].proof = <<NewNodePart(m)>>]
  /\ name_to_raw_sources' =
       Put(name_to_raw_sources, nodes[at].name,
           IF nodes[at].name \in DOMAIN name_to_raw_sources
             THEN Append(name_to_raw_sources[nodes[at].name], m) ELSE <<m>>)

\* a proof loop that looks at the preceding match before it looks at \proves
Pass2Step_PrecedingFirst ==
  /\ ppc = "pass2" /\ pidx <= Len(matches)
  /\ LET m == matches[pidx] IN
     IF m.env # "proof"
       THEN /\ pidx' = pidx + 1
            /\ UNCHANGED <<ppc, nodes, name_to_raw_sources, plog>>
       ELSE
         IF (pidx - 1) \in DOMAIN match_idx_to_node
           THEN /\ AttachProof(m, match_idx_to_node[pidx - 1])
                /\ pidx' = pidx + 1
                /\ UNCHANGED <<ppc, plog>>
           ELSE IF m.proves # <<>>
             THEN IF m.proves[1] \in DOMAIN label_to_node
                    THEN /\ AttachProof(m, label_to_node[m.proves[1]])
                         /\ pidx' = pidx + 1
                         /\ UNCHANGED <<ppc, plog>>
                    ELSE /\ ppc' = "KeyError"
                         /\ UNCHANGED <<pidx, nodes, name_to_raw_sources, plog>>
             ELSE /\ plog' = plog \cup {[kind |-> "cannot determine statement", at |-> pidx]}
                  /\ pidx' = pidx + 1
                  /\ UNCHANGED <<ppc, nodes, name_to_raw_sources>>
  /\ UNCHANGED <<matches, name_to_node, label_to_node, match_idx_to_node, uuid_count>>
  /\ UNCHANGED <<tvars, svars, ivars, avars, wvars, rvars>>

\* parse_latex.py:219-242: one iteration of the proof loop.  label_to_node[proves]
\* on a label that is not a key raises KeyError, which nothing catches.
Pass2Step ==
  /\ ppc = "pass2" /\ pidx <= Len(matches)
  /\ LET m == matches[pidx] IN
     IF m.env # "proof"
       THEN /\ pidx' = pidx + 1
            /\ UNCHANGED <<ppc, nodes, name_to_raw_sources, plog>>
       ELSE
         IF m.proves # <<>>
           THEN IF m.proves[1] \in DOMAIN label_to_node
                  THEN /\ AttachProof(m, label_to_node[m.proves[1]])
                       /\ pidx' = pidx + 1
                       /\ UNCHANGED <<ppc, plog>>
                  ELSE /\ ppc' = "KeyError"
                       /\ UNCHANGED <<pidx, nodes, name_to_raw_sources, plog>>
           ELSE IF (pidx - 1) \in DOMAIN match_idx_to_node
                  THEN /\ AttachProof(m, match_idx_to_node[pidx - 1])
                       /\ pidx' = pidx + 1
                       /\ UNCHANGED <<ppc, plog>>
                  ELSE /\ plog' = plog \cup {[kind |-> "cannot determine statement", at |-> pidx]}
                       /\ pidx' = pidx + 1
                       /\ UNCHANGED <<ppc, nodes, name_to_raw_sources>>
  /\ UNCHANGED <<matches, name_to_node, label_to_node, match_idx_to_node, uuid_count>>
  /\ UNCHANGED <<tvars, svars, ivars, avars, wvars, rvars>>

\* parse_latex.py:220 and 245: the proof loop is over, the resolving loop starts
Pass2End ==
  /\ ppc = "pass2" /\ pidx > Len(matches)
  /\ ppc' = "resolve" /\ pidx' = 1
  /\ UNCHANGED <<matches, nodes, name_to_node, label_to_node, match_idx_to_node,
                 name_to_raw_sources, uuid_count, plog>>
  /\ UNCHANGED <<tvars, svars, ivars, avars, wvars, rvars>>

\* a resolver that moves every known label, formalized target or not
convert_latex_label_to_lean_name_AnyTarget(node_part) ==
  LET moved == {use \in node_part.uses_raw : use \in DOMAIN label_to_node}
  IN [node_part EXCEPT
        !.uses_raw = @ \ moved,
        !.uses = @ \cup {nodes[label_to_node[use]].name : use \in moved}]

\* a resolver that adds the name and forgets uses_raw.remove(use)
convert_latex_label_to_lean_name_NoRemove(node_part) ==
  LET moved == {use \in node_part.uses_raw :
                  /\ use \in DOMAIN label_to_node
                  /\ nodes[label_to_node[use]].statement.lean_ok}
  IN [node_part EXCEPT
        !.uses = @ \cup {nodes[label_to_node[use]].name : use \in moved}]

\* parse_latex.py:127-138, the uses part (the \ref rewriting of the text is
\* not modelled: NodePart.text is left out of the model)
convert_latex_label_to_lean_name(node_part) ==
  LET moved == {use \in node_part.uses_raw :
                  /\ use \in DOMAIN label_to_node
                  /\ nodes[label_to_node[use]].statement.lean_ok}
  IN [node_part EXCEPT
        !.uses_raw = @ \ moved,
        !.uses = @ \cup {nodes[label_to_node[use]].name : use \in moved}]

\* parse_latex.py:135-136: the labels that get a "label not found" warning
NotFound(node_part) == {use \in node_part.uses_raw : use \notin DOMAIN label_to_node}

\* parse_latex.py:244-248: one iteration of the resolving loop
ResolveStep ==
  /\ ppc = "resolve" /\ pidx <= Len(nodes)
  /\ LET node == nodes[pidx]
         missing == NotFound(node.statement) \cup
                    (IF node.proof # <<>> THEN NotFound(node.proof[1]) ELSE {})
     IN /\ nodes' = [nodes EXCEPT
             ![pidx].statement = convert_latex_label_to_lean_name(node.statement),
             ![pidx].proof = IF node.proof # <<>>
                               THEN <<convert_latex_label_to_lean_name(node.proof[1])>>
                               ELSE <<>>]
        /\ plog' = IF missing # {}
                     THEN plog \cup {[kind |-> "uses label not found", at |-> pidx]}
                     ELSE plog
  /\ pidx' = pidx + 1
  /\ UNCHANGED <<matches, ppc, name_to_node, label_to_node, match_idx_to_node,
                 name_to_raw_sources, uuid_count>>
  /\ UNCHANGED <<tvars, svars, ivars, avars, wvars, rvars>>

\* parse_latex.py:250
ParseReturn ==
  /\ ppc = "resolve" /\ pidx > Len(nodes)
  /\ ppc' = "done"
  /\ UNCHANGED <<matches, pidx, nodes, name_to_node, label_to_node, match_idx_to_node,
                 name_to_raw_sources, uuid_count, plog>>
  /\ UNCHANGED <<tvars, svars, ivars, avars, wvars, rvars>>

NextParse == Pass1Step \/ Pass1End \/ Pass2Step \/ Pass2End \/ ResolveStep \/ ParseReturn

\* parse_latex.py:56-67 (SourceInfo) with the environment name of the match
Match(env, label, lean, proves, leanok, uses) ==
  [env |-> env, label |-> label, lean |-> lean, proves |-> proves,
   leanok |-> leanok, uses |-> uses]

\* parse_latex.py:181-190: the state when the statement loop starts
ParseStart ==
  /\ ppc = "pass1" /\ pidx = 1 /\ nodes = <<>>
  /\ name_to_node = <<>> /\ label_to_node = <<>> /\ match_idx_to_node = <<>>
  /\ name_to_raw_sources = <<>> /\ uuid_count = 0 /\ plog = {}
  /\ TopoIdle /\ SpliceIdle
  /\ InsertIdle /\ AttrIdle /\ RewriteIdle /\ ReadIdle

(* ---------------- the scanned documents ---------------- *)
\* \label values: plain, with a prefix that split(":") drops, and with a
\* leading digit and a hyphen
LabelA == <<"a">>
LabelTA == <<"t", ":", "a">>
Label1B == <<"1", "-", "b">>
\* \lean values: one spelled like the identifier generated from LabelA
LeanA == <<"a">>
LeanC == <<"c">>

Opt(S) == {<<>>} \cup {<<x>> : x \in S}

\* statements that differ in \label and \lean, and proofs without \proves
NameShapes ==
  {Match("theorem", l, n, <<>>, FALSE, {}) :
      l \in Opt({LabelA, LabelTA, Label1B}), n \in Opt({LeanA, LeanC})}
  \cup {Match("definition", <<>>, <<LeanA>>, <<>>, TRUE, {}),
        Match("proof", <<>>, <<>>, <<>>, FALSE, {})}

\* statements with and without a label or a \lean name, proofs with and
\* without \proves
ProofShapes ==
  {Match("lemma", l, n, <<>>, FALSE, {}) : l \in Opt({LabelA, LabelTA}), n \in Opt({LeanC})}
  \cup {Match("proof", <<>>, <<>>, pr, TRUE, {}) : pr \in Opt({LabelA, LabelTA})}

\* statements with and without \leanok, and proofs; \uses is added on top
UsesShapes ==
  {Match("definition", <<l>>, <<>>, <<>>, ok, {}) : l \in {LabelA, LabelTA}, ok \in BOOLEAN}
  \cup {Match("proof", <<>>, <<>>, <<>>, FALSE, {})}

InitParseNames ==
  /\ \E n \in 1..MaxMatches : matches \in [1..n -> NameShapes]
  /\ ParseStart

InitParseProofs ==
  /\ \E n \in 1..MaxMatches : matches \in [1..n -> ProofShapes]
  /\ ParseStart

\* the \uses entries <<match, label>> are spread over the matches
InitParseUses ==
  /\ \E n \in 1..MaxMatches, k \in 0..MaxUsesEntries :
       \E shape \in [1..n -> UsesShapes],
          es \in [1..k -> (1..n) \X {LabelA, LabelTA}] :
         matches = [i \in 1..n |->
                      [shape[i] EXCEPT !.uses = {es[j][2] : j \in {x \in 1..k : es[x][1] = i}}]]
  /\ ParseStart

SpecParseNames == InitParseNames /\ [][NextParse]_vars
SpecParseProofs == InitParseProofs /\ [][NextParse]_vars
SpecParseUses == InitParseUses /\ [][NextParse]_vars


(* ---------------- properties of parse_nodes ---------------- *)
IsStatementMatch(k) == k \in DOMAIN matches /\ matches[k].env \in ThmTypes

\* the NodeParts of a node
Parts(node) == {node.statement} \cup (IF node.proof # <<>> THEN {node.proof[1]} ELSE {})

\* C4: no two Nodes of the list share a name; every statement match either
\* made a Node or was reported as a second occurrence, and a Node carries the
\* statement of the first match recorded under its name.
C4_UniqueNames ==
  /\ \A i, j \in DOMAIN nodes : i # j => nodes[i].name # nodes[j].name
  /\ Len(nodes) + Cardinality({w \in plog : w.kind = "name occurs twice"})
       = Cardinality(DOMAIN match_idx_to_node)
  /\ \A i \in DOMAIN nodes :
       LET first == name_to_raw_sources[nodes[i].name][1] IN
         /\ nodes[i].statement.lean_ok = first.leanok
         /\ nodes[i].statement.latex_env = first.env

\* parse_nodes returned after a statement without \lean got a generated name
\* and a later statement, different in \leanok, named that identifier in \lean
C4_Witness ==
  /\ ppc = "done"
  /\ \E i, j \in DOMAIN matches :
       /\ i < j /\ IsStatementMatch(i) /\ IsStatementMatch(j)
       /\ matches[i].lean = <<>> /\ matches[j].lean # <<>>
       /\ matches[i].leanok # matches[j].leanok
       /\ match_idx_to_node[i] = match_idx_to_node[j]

\* the proof loop stands at a proof match
AtProofMatch == ppc = "pass2" /\ pidx \in DOMAIN matches /\ matches[pidx].env = "proof"

\* the step attaches the proof match m to the node at position at
Attached(m, at) ==
  /\ nodes'[at].proof = <<NewNodePart(m)>>
  /\ name_to_raw_sources'[nodes[at].name] = Append(name_to_raw_sources[nodes[at].name], m)

\* a statement match carries \label{l}
LabelCarried(l) == \E k \in DOMAIN matches : IsStatementMatch(k) /\ matches[k].label = <<l>>

\* C7: a proof with \proves{L} goes to a node labelled L wherever it stands;
\* a proof without \proves goes to the node of the preceding match exactly
\* when that match is a statement.
C7_ProofTarget ==
  [][AtProofMatch =>
      LET m == matches[pidx] IN
        /\ (m.proves # <<>> /\ LabelCarried(m.proves[1])) =>
             \E k \in DOMAIN matches :
               /\ IsStatementMatch(k) /\ matches[k].label = m.proves
               /\ Attached(m, match_idx_to_node[k])
               /\ \A at \in DOMAIN nodes :
                    at # match_idx_to_node[k] => nodes'[at] = nodes[at]
        /\ (m.proves = <<>> /\ IsStatementMatch(pidx - 1)) =>
             /\ Attached(m, match_idx_to_node[pidx - 1])
             /\ \A at \in DOMAIN nodes :
                  at # match_idx_to_node[pidx - 1] => nodes'[at] = nodes[at]
        /\ (m.proves = <<>> /\ ~IsStatementMatch(pidx - 1)) =>
             /\ nodes' = nodes
             /\ name_to_raw_sources' = name_to_raw_sources
  ]_vars

\* parse_nodes returned after a proof with \proves, standing right after a
\* statement, went to another node than that statement's
C7_Witness ==
  /\ ppc = "done"
  /\ \E i \in DOMAIN matches :
       /\ matches[i].env = "proof" /\ matches[i].proves # <<>>
       /\ IsStatementMatch(i - 1)
       /\ label_to_node[matches[i].proves[1]] # match_idx_to_node[i - 1]
       /\ nodes[label_to_node[matches[i].proves[1]]].proof # <<>>
       /\ nodes[match_idx_to_node[i - 1]].proof = <<>>

\* the proof match the loop stands at has no resolvable target
NoTarget ==
  LET m == matches[pidx] IN
    \/ m.proves = <<>> /\ ~IsStatementMatch(pidx - 1)
    \/ m.proves # <<>> /\ ~LabelCarried(m.proves[1])

\* C8: a proof match without a resolvable target is dropped with a warning,
\* nothing else changes, and the proof loop goes on.
C8_UnresolvedProofDropped ==
  [][(AtProofMatch /\ NoTarget) =>
       /\ nodes' = nodes
       /\ name_to_raw_sources' = name_to_raw_sources
       /\ plog' = plog \cup {[kind |-> "cannot determine statement", at |-> pidx]}
       /\ ppc' = "pass2" /\ pidx' = pidx + 1
  ]_vars

\* label l is a key of label_to_node and its node's statement is \leanok
Resolvable(l) ==
  /\ LabelCarried(l)
  /\ l \in DOMAIN label_to_node
  /\ nodes[label_to_node[l]].statement.lean_ok

\* what C9 says of one NodePart before and after its resolution
ResolvedAsClaimed(before, after) ==
  /\ \A l \in before.uses_raw :
       IF Resolvable(l)
         THEN l \notin after.uses_raw /\ nodes[label_to_node[l]].name \in after.uses
         ELSE l \in after.uses_raw
  /\ after.uses_raw \subseteq before.uses_raw
  /\ after.uses = before.uses \cup
       {nodes[label_to_node[l]].name : l \in {x \in before.uses_raw : Resolvable(x)}}

MaxDecls == 2
\* longest node list handed to write_blueprint_attributes
MaxSpliceNodes == 2

IsWs(c) == c \in {" ", "\n"}

\* s without its leading white space (a leading \s* of a regular expression)
DropWs(s) ==
  LET rest == {i \in DOMAIN s : ~IsWs(s[i])} IN
  IF rest = {} THEN <<>>
  ELSE SubSeq(s, CHOOSE i \in rest : \A j \in rest : i <= j, Len(s))

\* str.strip()
Strip(s) ==
  LET rest == {i \in DOMAIN s : ~IsWs(s[i])} IN
  IF rest = {} THEN <<>>
  ELSE SubSeq(s, CHOOSE i \in rest : \A j \in rest : i <= j, SetMax(rest))

\* modify_lean.py:36: the length of the leading run of modifier lines
RECURSIVE ModifiersLen(_)
ModifiersLen(s) ==
  IF Len(s) >= 2 /\ s[1] = "m" /\ s[2] = "\n"
    THEN 2 + ModifiersLen(SubSeq(s, 3, Len(s))) ELSE 0

\* modify_lean.py:28-73
insert_docstring_and_attribute(decl0) ==
  LET n == ModifiersLen(decl0)
      command_modifiers == SubSeq(decl0, 1, n)
      decl1 == SubSeq(decl0, n + 1, Len(decl0))
      \* ^\s*/--(.*?)-/\s*
      d1 == DropWs(decl1)
      hasDoc == d1 # <<>> /\ d1[1] = "d"
      docstring == IF hasDoc THEN "/-- new, old -/" ELSE "/-- new -/"
      decl2 == IF hasDoc THEN DropWs(Tail(d1)) ELSE decl1
      \* ^\s*@\[(.*?)\]\s*
      d2 == DropWs(decl2)
      hasAttr == d2 # <<>> /\ d2[1] = "a"
      attrs == IF hasAttr THEN "old, blueprint" ELSE "blueprint"
      decl3 == IF hasAttr THEN DropWs(Tail(d2)) ELSE decl2
  IN IF decl3 # <<>> /\ decl3[1] = "t"
       THEN LET rest == Strip(Tail(decl3))
                decl4 == IF rest # <<>> THEN rest \o <<" ">> ELSE rest
            IN <<"t", " ", IF hasAttr THEN "(attr := old, blueprint)" ELSE "(attr := blueprint)",
                 " ">> \o decl4 \o <<docstring>>
       ELSE command_modifiers
              \o <<docstring, "\n", IF hasAttr THEN "@[old, blueprint]" ELSE "@[blueprint]", "\n">>
              \o decl3

\* modify_lean.py:36-57: what is left of the declaration after the modifiers,
\* the docstring and the attribute block starts with to_additive
StartsWithToAdditive(decl0) ==
  LET decl1 == SubSeq(decl0, ModifiersLen(decl0) + 1, Len(decl0))
      d1 == DropWs(decl1)
      decl2 == IF d1 # <<>> /\ d1[1] = "d" THEN DropWs(Tail(d1)) ELSE decl1
      d2 == DropWs(decl2)
      decl3 == IF d2 # <<>> /\ d2[1] = "a" THEN DropWs(Tail(d2)) ELSE decl2
  IN decl3 # <<>> /\ decl3[1] = "t"

\* the warning logged on every to_additive declaration (no global flag)
WarnToAdditive_EveryTime(decl0) ==
  IF StartsWithToAdditive(decl0)
    THEN /\ warned_to_additive' = TRUE
         /\ to_additive_log' = to_additive_log + 1
    ELSE UNCHANGED <<warned_to_additive, to_additive_log>>

\* modify_lean.py:57-67: the global flag and the warning
WarnToAdditive(decl0) ==
  IF StartsWithToAdditive(decl0) /\ ~warned_to_additive
    THEN /\ warned_to_additive' = TRUE
         /\ to_additive_log' = to_additive_log + 1
    ELSE UNCHANGED <<warned_to_additive, to_additive_log>>

\* source[a:b] with Python's clamping of slice bounds
Slice(source, a, b) ==
  LET lo == IF a > Len(source) THEN Len(source) ELSE a
      hi == IF b > Len(source) THEN Len(source) ELSE b
  IN SubSeq(source, lo + 1, hi)

\* modify_lean.py:13-17: sum(len(lines[i]) for i in range(line - 1)), the
\* lines being source.splitlines(keepends=True)
LinesLength(source, line) ==
  LET ends == {i \in DOMAIN source : source[i] = "\n"}
      upto == {i \in ends : Cardinality({j \in ends : j <= i}) = line - 1}
  IN IF line = 1 THEN 0
     ELSE IF upto # {} THEN CHOOSE i \in upto : TRUE
     ELSE Len(source)

\* Position.column read as if it were 1-indexed like Position.line
split_declaration_ColumnOneBased(source, pos, end_pos) ==
  LET start == LinesLength(source, pos.line) + pos.column - 1
      end == LinesLength(source, end_pos.line) + end_pos.column
  IN [pre |-> Slice(source, 0, start),
      decl |-> Slice(source, start, end),
      post |-> Slice(source, end, Len(source))]

\* modify_lean.py:11-23
split_declaration(source, pos, end_pos) ==
  LET start == LinesLength(source, pos.line) + pos.column
      end == LinesLength(source, end_pos.line) + end_pos.column
  IN [pre |-> Slice(source, 0, start),
      decl |-> Slice(source, start, end),
      post |-> Slice(source, end, Len(source))]

\* modify_lean.py:76-81: the content modify_source writes back
modify_source(source, location) ==
  LET parts == split_declaration(source, location.range.pos, location.range.end_pos)
  IN parts.pre \o insert_docstring_and_attribute(parts.decl) \o parts.post

\* modify_lean.py:84-95: the content add_blueprint_gen_import writes back
add_blueprint_gen_import(source) ==
  LET ends == {i \in DOMAIN source : source[i] = "\n"}
      starts == {o \in {0} \cup ends : o < Len(source)}   \* offsets where a line starts
      imports == {o \in starts : source[o + 1] = "i"}
      first == IF imports = {} THEN 0 ELSE CHOOSE o \in imports : \A q \in imports : o <= q
  IN Slice(source, 0, first) \o <<"import BlueprintGen", "\n">> \o Slice(source, first, Len(source))

(* ---- modules: their names are ordered as Python orders the strings ---- *)
ModuleRank == [m \in {"", "Mathlib.X", "Proj.A", "Proj.B"} |->
                 CASE m = "" -> 0 [] m = "Mathlib.X" -> 1 [] m = "Proj.A" -> 2 [] m = "Proj.B" -> 3]

\* module.split(".")[0]
ModuleRoot(m) == IF m = "Mathlib.X" THEN "Mathlib" ELSE "Proj"

\* the `modules` argument
TargetModules == {"Proj"}

\* modify_lean.py:125-126: the sort key
SortKey(n) ==
  IF n.location # <<>>
    THEN <<ModuleRank[n.location[1].module], n.location[1].range.pos.line>>
    ELSE <<0, 0>>

KeyLess(k1, k2) == k1[1] < k2[1] \/ (k1[1] = k2[1] /\ k1[2] < k2[2])

\* s without its element at position i
RemoveAt(s, i) == SubSeq(s, 1, i - 1) \o SubSeq(s, i + 1, Len(s))

\* modify_lean.py:124-128: list.sort(key, reverse=True); the sort is stable,
\* so nodes with equal keys keep their order
RECURSIVE SortedNodes(_)
SortedNodes(s) ==
  IF s = <<>> THEN <<>>
  ELSE LET top == {i \in DOMAIN s : \A j \in DOMAIN s : ~KeyLess(SortKey(s[i]), SortKey(s[j]))}
           i == CHOOSE x \in top : \A y \in top : x <= y
       IN <<s[i]>> \o SortedNodes(RemoveAt(s, i))

\* modify_lean.py:134: the node is passed over by the splicing loop
Skipped(n) == ~n.has_lean \/ n.location = <<>> \/ n.file = <<>>

\* modify_lean.py:137: the node's module is one of the target modules
InScope(n) == \E module \in TargetModules : ModuleRoot(n.location[1].module) = module

\* modify_lean.py:124-131
SortNodes ==
  /\ spc = "sort"
  /\ snodes' = SortedNodes(snodes)
  /\ spc' = "loop" /\ sidx' = 1
  /\ modified_files' = {} /\ upstream_nodes' = <<>>
  /\ UNCHANGED <<files, files0, imported, root_file>>
  /\ UNCHANGED <<tvars, pvars, ivars, avars, wvars, rvars>>

\* modify_lean.py:133-144: one iteration of the splicing loop
SpliceStep ==
  /\ spc = "loop" /\ sidx <= Len(snodes)
  /\ LET node == snodes[sidx] IN
     IF Skipped(node)
       THEN UNCHANGED <<files, modified_files, upstream_nodes, warned_to_additive, to_additive_log>>
       ELSE IF ~InScope(node)
         THEN /\ upstream_nodes' = Append(upstream_nodes, node.name)
              /\ UNCHANGED <<files, modified_files, warned_to_additive, to_additive_log>>
         ELSE /\ files' = [files EXCEPT ![node.file[1]] = modify_source(@, node.location[1])]
              /\ WarnToAdditive(split_declaration(files[node.file[1]], node.location[1].range.pos,
                                                  node.location[1].range.end_pos).decl)
              /\ modified_files' = modified_files \cup {node.file[1]}
              /\ UNCHANGED upstream_nodes
  /\ sidx' = sidx + 1
  /\ UNCHANGED <<files0, snodes, spc, imported, root_file, calls, outs>>
  /\ UNCHANGED <<tvars, pvars, avars, wvars, rvars>>

\* modify_lean.py:133 and 146: the splicing loop is over
SpliceEnd ==
  /\ spc = "loop" /\ sidx > Len(snodes)
  /\ spc' = "imports"
  /\ UNCHANGED <<files, files0, snodes, sidx, modified_files, imported, upstream_nodes, root_file>>
  /\ UNCHANGED <<tvars, pvars, ivars, avars, wvars, rvars>>

\* the import added to every file of the project, spliced or not
ImportStep_EveryFile ==
  /\ spc = "imports"
  /\ \E file \in DOMAIN files \ imported :
       /\ files' = [files EXCEPT ![file] = add_blueprint_gen_import(@)]
       /\ imported' = imported \cup {file}
  /\ UNCHANGED <<files0, snodes, spc, sidx, modified_files, upstream_nodes, root_file>>
  /\ UNCHANGED <<tvars, pvars, ivars, avars, wvars, rvars>>

\* modify_lean.py:146-147: one iteration over the set modified_files
ImportStep ==
  /\ spc = "imports"
  /\ \E file \in modified_files \ imported :
       /\ files' = [files EXCEPT ![file] = add_blueprint_gen_import(@)]
       /\ imported' = imported \cup {file}
  /\ UNCHANGED <<files0, snodes, spc, sidx, modified_files, upstream_nodes, root_file>>
  /\ UNCHANGED <<tvars, pvars, ivars, avars, wvars, rvars>>

\* modify_lean.py:151-180: the extra declarations are collected and appended
\* to the generated file.  The nodes of this model carry no uses, so
\* topological_sort returns the list it is given.
WriteExtra ==
  /\ spc = "imports" /\ imported = modified_files
  /\ LET attrs == [i \in DOMAIN upstream_nodes |-> <<"attribute", upstream_nodes[i]>>]
         informal == SelectSeq(snodes, LAMBDA n : ~n.has_lean)
         decls == [i \in DOMAIN informal |-> <<"placeholder", informal[i].name>>]
         extra_nodes == attrs \o decls
     IN root_file' = IF extra_nodes # <<>>
                       THEN root_file \o <<<<"imports", 0>>>> \o extra_nodes
                       ELSE root_file
  /\ spc' = "done"
  /\ UNCHANGED <<files, files0, snodes, sidx, modified_files, imported, upstream_nodes>>
  /\ UNCHANGED <<tvars, pvars, ivars, avars, wvars, rvars>>

NextSplice == SortNodes \/ SpliceStep \/ SpliceEnd \/ ImportStep \/ WriteExtra

(* ---------------- the project the function is called on ---------------- *)
\* declarations: plain, under a modifier line, with a docstring and an
\* attribute block, and a to_additive marker
DeclShapes == {<<"x", "x">>, <<"m", "\n", "x">>, <<"d", " ", "a", "\n", "x">>, <<"t">>}

\* what follows a declaration: a line end, or a space (the next declaration
\* starts on the same line)
Separators == {<<"\n">>, <<" ">>}

Header == <<"i", "\n">>

RECURSIVE Concat(_, _, _)
\* Header and the first k declarations, each with its separator
Concat(shape, sep, k) ==
  IF k = 0 THEN Header ELSE Concat(shape, sep, k - 1) \o shape[k] \o sep[k]

\* common.py:69-71: the Position of offset off in source (line from 1, column
\* from 0), as the location lookup reports it
PositionOf(source, off) ==
  LET before == {i \in 1..off : source[i] = "\n"} IN
  [line |-> 1 + Cardinality(before),
   column |-> off - (IF before = {} THEN 0 ELSE SetMax(before))]

\* common.py:73-79: the DeclarationLocation of source[start:end]
LocationOf(module, source, start, end) ==
  [module |-> module,
   range |-> [pos |-> PositionOf(source, start), end_pos |-> PositionOf(source, end)]]

FixedFile == Header \o <<"x", "x", "\n">>

ModuleOfFile == [f \in {"A.lean", "B.lean", "X.lean"} |->
                   CASE f = "A.lean" -> "Proj.A" [] f = "B.lean" -> "Proj.B" [] f = "X.lean" -> "Mathlib.X"]

\* common.py:81-84: a NodeWithPos; where is <<file, declaration number>>,
\* <<"no location", 0>> (formalized, location missing) or <<"no lean", 0>>
\* (not formalized)
NodeWithPos(name, where, fs, shape, sep) ==
  IF where[2] = 0
    THEN [name |-> name, has_lean |-> where[1] = "no location", location |-> <<>>, file |-> <<>>]
    ELSE LET f == where[1]
             start == IF f = "A.lean" THEN Len(Concat(shape, sep, where[2] - 1)) ELSE Len(Header)
             end == start + (IF f = "A.lean" THEN Len(shape[where[2]]) ELSE 2)
         IN [name |-> name, has_lean |-> TRUE,
             location |-> <<LocationOf(ModuleOfFile[f], fs[f], start, end)>>,
             file |-> <<f>>]

InitSplice ==
  /\ \E k \in 1..MaxDecls, n \in 1..MaxSpliceNodes :
       \E shape \in [1..k -> DeclShapes], sep \in [1..k -> Separators],
          where \in [1..n -> ({"A.lean"} \X (1..k)) \cup {<<"B.lean", 1>>, <<"X.lean", 1>>}
                               \cup {<<"no location", 0>>, <<"no lean", 0>>}] :
         /\ \A i, j \in 1..n : (i # j /\ where[i] = where[j]) => where[i][2] = 0
         /\ files = [f \in {"A.lean", "B.lean", "X.lean"} |->
                       IF f = "A.lean" THEN Concat(shape, sep, k) ELSE FixedFile]
         /\ snodes = [i \in 1..n |-> NodeWithPos(i, where[i], files, shape, sep)]
  /\ files0 = files
  /\ spc = "sort" /\ sidx = 0 /\ modified_files = {} /\ imported = {}
  /\ upstream_nodes = <<>> /\ root_file = <<>>
  /\ TopoIdle /\ ParseIdle
  /\ InsertIdle /\ AttrIdle /\ RewriteIdle /\ ReadIdle

SpecSplice == InitSplice /\ [][NextSplice]_vars

(* ---------------- properties of write_blueprint_attributes ---------------- *)
\* the node is spliced in place by the loop
Spliced(n) == ~Skipped(n) /\ InScope(n)

\* position p is later than position q (line, then column)
PosLater(p, q) == p.line > q.line \/ (p.line = q.line /\ p.column > q.column)

\* C2: of two spliced nodes of one file, the one that starts later is spliced
\* first, and when modify_source is about to run for a node, the node's range
\* still cuts the current content where it cut the original one.
C2_LaterDeclarationFirst ==
  /\ spc \in {"loop", "imports", "done"} =>
       \A i, j \in DOMAIN snodes :
         (i < j /\ Spliced(snodes[i]) /\ Spliced(snodes[j]) /\ snodes[i].file = snodes[j].file)
           => PosLater(snodes[i].location[1].range.pos, snodes[j].location[1].range.pos)
  /\ (spc = "loop" /\ sidx \in DOMAIN snodes /\ Spliced(snodes[sidx])) =>
       LET node == snodes[sidx]
           range == node.location[1].range
           now == split_declaration(files[node.file[1]], range.pos, range.end_pos)
           then == split_declaration(files0[node.file[1]], range.pos, range.end_pos)
       IN now.pre = then.pre /\ now.decl = then.decl

\* the offsets of source that the location lookup reports as position p
OffsetsAt(source, p) == {off \in 0..Len(source) : PositionOf(source, off) = p}

C11_UnlocatedNodeAppended ==
  spc = "done" =>
    \A i \in DOMAIN snodes :
      (snodes[i].location = <<>> \/ snodes[i].file = <<>>) =>
        \E k \in DOMAIN root_file : root_file[k] = <<"placeholder", snodes[i].name>>

\* how many lines `import BlueprintGen` the content has
ImportLines(source) ==
  Cardinality({i \in DOMAIN source : source[i] = "import BlueprintGen"})

\* some node of the list is spliced into file f
ReceivesSplice(f) == \E i \in DOMAIN snodes : Spliced(snodes[i]) /\ snodes[i].file = <<f>>

\* C19: no file has the BlueprintGen import line while splices are still
\* being applied; when write_blueprint_attributes has returned, each file that
\* received a splice has the line exactly once, and every other file (those
\* of upstream and of skipped nodes included) is as it was.
C19_ImportOnceAfterSplices ==
  /\ spc \in {"sort", "loop"} => \A f \in DOMAIN files : ImportLines(files[f]) = 0
  /\ spc = "imports" =>
       \A f \in DOMAIN files :
         /\ ImportLines(files[f]) <= 1
         /\ ~ReceivesSplice(f) => files[f] = files0[f]
  /\ spc = "done" =>
       \A f \in DOMAIN files :
         IF ReceivesSplice(f)
           THEN ImportLines(files[f]) = 1
           ELSE files[f] = files0[f]

\* write_blueprint_attributes has returned after two splices into one file,
\* or after a splice into one file and an upstream node in another
C19_Witness ==
  /\ spc = "done"
  /\ ImportLines(files["A.lean"]) = 1
  /\ \E i \in DOMAIN snodes : ~Skipped(snodes[i]) /\ ~InScope(snodes[i])
  /\ files["X.lean"] = files0["X.lean"]

(* ====================== write_latex_source ====================== *)
(* A markup file is a sequence of pieces, each a tuple of strings:         *)
(*   <<"env", t>>             the verbatim text t of one environment       *)
(*   <<"inputleannode", n>>   the directive \inputleannode{n}              *)
(*   <<"ref", sep, l1, ...>>  a reference command and its label list, sep  *)
(*                            being what separates the labels as written   *)
(*   <<"ws">>, <<"plain">>    white space, other text                      *)
(*   <<"macros">>             the \input lines appended to the macros file *)

\* most pieces in the document
MaxPieces == 3

\* the environments of the document: what parse_nodes reads from each text
EnvKind(t) == IF t \in {"p"} THEN "proof" ELSE "statement"
\* the \lean name of a statement text
EnvName(t) == IF t = "sB" THEN "B" ELSE "A"

TexFiles == {"a.tex", "b.tex", "macros/common.tex"}

RECURSIVE ReplaceAll(_, _, _)
\* str.replace(old, new): every occurrence is replaced
ReplaceAll(source, old, new) ==
  IF source = <<>> THEN <<>>
  ELSE (IF Head(source) = old THEN new ELSE <<Head(source)>>)
         \o ReplaceAll(Tail(source), old, new)

RECURSIVE ReplaceEach(_, _)
\* modify_latex.py:46-47
ReplaceEach(source, rest_sources) ==
  IF rest_sources = <<>> THEN source
  ELSE ReplaceEach(ReplaceAll(source, Head(rest_sources), <<>>), Tail(rest_sources))

\* str.strip() of a whole file
StripWs(source) ==
  LET rest == {i \in DOMAIN source : source[i] # <<"ws">>} IN
  IF rest = {} THEN <<>>
  ELSE SubSeq(source, CHOOSE i \in rest : \A j \in rest : i <= j, SetMax(rest))

\* a rewrite that keeps the label next to the name it resolves to
replace_ref_KeepLabel(piece, map) ==
  LET RECURSIVE Go(_)
      Go(k) == IF k > Len(piece) THEN <<>>
               ELSE (IF piece[k] \in DOMAIN map THEN <<map[piece[k]], piece[k]>>
                     ELSE <<piece[k]>>) \o Go(k + 1)
  IN <<"ref", ", ">> \o Go(3)

\* modify_latex.py:10-14: the labels are stripped, resolved where the map
\* knows them, and joined with ", "
replace_ref(piece, map) ==
  <<"ref", ", ">> \o
    [k \in 1..(Len(piece) - 2) |->
       IF piece[k + 2] \in DOMAIN map THEN map[piece[k + 2]] ELSE piece[k + 2]]

\* modify_latex.py:8-23
modify_latex_convert_latex_label_to_lean_name(source, map) ==
  StripWs([i \in DOMAIN source |->
             IF source[i][1] = "ref" THEN replace_ref(source[i], map) ELSE source[i]])

\* the environments of the document in the order ENV_PATTERN finds them
EnvMatches(doc) == SelectSeq(doc, LAMBDA piece : piece[1] = "env")

\* parse_latex.py:199-200 and 242: the texts recorded for name, statements
\* first, then the proofs that follow a statement of that name
RawSourcesOf(ms, name) ==
  LET RECURSIVE Stmts(_)
      Stmts(i) == IF i > Len(ms) THEN <<>>
                  ELSE (IF EnvKind(ms[i][2]) = "statement" /\ EnvName(ms[i][2]) = name
                          THEN <<ms[i]>> ELSE <<>>) \o Stmts(i + 1)
      RECURSIVE Proofs(_)
      Proofs(i) == IF i > Len(ms) THEN <<>>
                   ELSE (IF /\ EnvKind(ms[i][2]) = "proof" /\ i > 1
                            /\ EnvKind(ms[i - 1][2]) = "statement"
                            /\ EnvName(ms[i - 1][2]) = name
                           THEN <<ms[i]>> ELSE <<>>) \o Proofs(i + 1)
  IN Stmts(1) \o Proofs(1)

\* the items of name_to_raw_sources in insertion order
RawSources(doc) ==
  LET ms == EnvMatches(doc)
      RECURSIVE Items(_, _)
      Items(i, had) ==
        IF i > Len(ms) THEN <<>>
        ELSE IF EnvKind(ms[i][2]) = "statement" /\ EnvName(ms[i][2]) \notin had
          THEN <<[name |-> EnvName(ms[i][2]), sources |-> RawSourcesOf(ms, EnvName(ms[i][2]))]>>
                 \o Items(i + 1, had \cup {EnvName(ms[i][2])})
          ELSE Items(i + 1, had)
  IN Items(1, {})

\* modify_latex.py:35-48: one iteration of the loop over the raw-source map;
\* the files are rewritten independently of one another
RewriteNode ==
  /\ wpc = "nodes" /\ widx <= Len(raw_sources)
  /\ LET name == raw_sources[widx].name
         first_source == Head(raw_sources[widx].sources)
         rest_sources == Tail(raw_sources[widx].sources)
     IN IF name \notin DOMAIN wnodes \/ (~convert_informal /\ ~wnodes[name])
          THEN UNCHANGED tex
          ELSE tex' = [file \in DOMAIN tex |->
                         ReplaceEach(ReplaceAll(tex[file], first_source,
                                                <<<<"inputleannode", name>>>>),
                                     rest_sources)]
  /\ widx' = widx + 1
  /\ UNCHANGED <<tex0, tex1, raw_sources, wnodes, convert_informal, wlabel_to_node, wpc>>
  /\ UNCHANGED <<tvars, pvars, svars, ivars, avars, rvars>>

\* modify_latex.py:35 and 51: the loop over the raw-source map is over
RewriteNodesEnd ==
  /\ wpc = "nodes" /\ widx > Len(raw_sources)
  /\ wpc' = "refs"
  /\ UNCHANGED <<tex, tex0, tex1, raw_sources, wnodes, convert_informal, wlabel_to_node, widx>>
  /\ UNCHANGED <<tvars, pvars, svars, ivars, avars, rvars>>

\* modify_latex.py:51-64: the references of every file are rewritten, the
\* macros file (which exists) gets the library inputs appended, and the
\* function returns
RewriteRefs ==
  /\ wpc = "refs"
  /\ tex' = [file \in DOMAIN tex |->
               LET content == modify_latex_convert_latex_label_to_lean_name(tex[file], wlabel_to_node)
               IN IF file = "macros/common.tex" THEN content \o <<<<"macros">>>> ELSE content]
  /\ tex1' = tex'
  /\ wpc' = "done"
  /\ UNCHANGED <<tex0, raw_sources, wnodes, convert_informal, wlabel_to_node, widx>>
  /\ UNCHANGED <<tvars, pvars, svars, ivars, avars, rvars>>

\* the reference-rewrite step applied to every file a second time
RewriteRefsAgain ==
  /\ wpc = "done"
  /\ tex' = [file \in DOMAIN tex |->
               modify_latex_convert_latex_label_to_lean_name(tex[file], wlabel_to_node)]
  /\ wpc' = "again"
  /\ UNCHANGED <<tex0, tex1, raw_sources, wnodes, convert_informal, wlabel_to_node, widx>>
  /\ UNCHANGED <<tvars, pvars, svars, ivars, avars, rvars>>

NextRewrite == RewriteNode \/ RewriteNodesEnd \/ RewriteRefs \/ RewriteRefsAgain

\* write_latex_source is called on a document of the given pieces, cut into
\* the files a.tex and b.tex, with the raw-source map parse_nodes recorded
RewriteStart(Pieces) ==
  /\ \E n \in 1..MaxPieces :
       \E doc \in [1..n -> Pieces], cut \in 0..n :
         /\ tex = [file \in TexFiles |->
                     CASE file = "a.tex" -> SubSeq(doc, 1, cut)
                       [] file = "b.tex" -> SubSeq(doc, cut + 1, n)
                       [] OTHER -> <<<<"plain">>>>]
         /\ raw_sources = RawSources(doc)
  /\ tex0 = tex /\ tex1 = <<>>
  /\ wpc = "nodes" /\ widx = 1
  /\ TopoIdle /\ ParseIdle /\ SpliceIdle /\ InsertIdle /\ AttrIdle /\ ReadIdle

\* documents of statements (two wordings of A, and B), proofs and a reference
NodePieces ==
  {<<"env", "sA">>, <<"env", "sA2">>, <<"env", "sB">>, <<"env", "p">>, <<"ref", ",", "a">>}

InitRewriteNodes ==
  /\ RewriteStart(NodePieces)
  /\ \E D \in SUBSET {"A", "B"} : wnodes \in [D -> BOOLEAN]
  /\ convert_informal \in BOOLEAN
  /\ wlabel_to_node = [l \in {"a"} |-> "A"]

\* documents of reference commands, white space and a statement
RefPieces ==
  {<<"ws">>, <<"plain">>, <<"ref", ",", "a">>, <<"ref", " , ", "b", "a">>, <<"env", "sA">>}

InitRewriteRefs ==
  /\ RewriteStart(RefPieces)
  /\ wnodes = [n \in {"A"} |-> TRUE]
  /\ convert_informal = TRUE
  /\ \E D \in SUBSET {"a", "b"} : wlabel_to_node \in [D -> {"a", "b", "n"}]

SpecRewriteNodes == InitRewriteNodes /\ [][NextRewrite]_vars
SpecRewriteRefs == InitRewriteRefs /\ [][NextRewrite]_vars

(* ---------------- properties of write_latex_source ---------------- *)
\* the node is one the inclusion policy lets through
Included(name) == name \in DOMAIN wnodes /\ (convert_informal \/ wnodes[name])

\* how many times piece occurs in the files of the tree
Occurrences(tree, piece) ==
  LET RECURSIVE Count(_)
      Count(S) == IF S = {} THEN 0
                  ELSE LET file == CHOOSE f \in S : TRUE
                       IN Cardinality({i \in DOMAIN tree[file] : tree[file][i] = piece})
                            + Count(S \ {file})
  IN Count(DOMAIN tree)

\* the file and the position of the first occurrence of piece in the document
FirstPlace(tree, piece) ==
  LET file == IF \E i \in DOMAIN tree["a.tex"] : tree["a.tex"][i] = piece
                THEN "a.tex" ELSE "b.tex"
      at == CHOOSE i \in DOMAIN tree[file] :
              tree[file][i] = piece /\ \A j \in 1..(i - 1) : tree[file][j] # piece
  IN <<file, at>>

\* C12: after the loop over the raw-source map, every node that the
\* inclusion policy lets through has exactly one directive in the document
\* tree, in the file of its first recorded occurrence, and none of its
\* recorded occurrences is left, verbatim identical duplicates included.
C12_OneDirectivePerNode ==
  wpc \in {"refs", "done"} =>
    \A k \in DOMAIN raw_sources :
      LET name == raw_sources[k].name
          sources == raw_sources[k].sources
          directive == <<"inputleannode", name>>
      IN Included(name) =>
           /\ Occurrences(tex, directive) = 1
           /\ \E i \in DOMAIN tex[FirstPlace(tex0, Head(sources))[1]] :
                tex[FirstPlace(tex0, Head(sources))[1]][i] = directive
           /\ \A j \in DOMAIN sources : Occurrences(tex, sources[j]) = 0

\* no name that the rewrite step writes is the label of a node of another name
NoNameIsLabel(map) ==
  \A l \in DOMAIN map : map[l] \in DOMAIN map => map[map[l]] = map[l]

\* C13 as stated: the reference-rewrite step over the markup files is
\* idempotent for every text and every label-to-node map.
C13_RewriteIdempotent ==
  wpc = "again" => tex = tex1

\* C13 amended: the step is idempotent whenever no node's name is the label of
\* a node of a different name.
C13_RewriteIdempotentNoChain ==
  (wpc = "again" /\ NoNameIsLabel(wlabel_to_node)) =>
    tex = tex1

\* the step has run twice on a file in which it resolved a label to another
\* string and stripped white space, under a map with no name that is the label
\* of another node
C13_Witness ==
  /\ wpc = "again" /\ NoNameIsLabel(wlabel_to_node)
  /\ \E l \in DOMAIN wlabel_to_node : wlabel_to_node[l] # l
  /\ \E file \in {"a.tex", "b.tex"} :
       /\ \E i \in DOMAIN tex0[file] :
            /\ tex0[file][i][1] = "ref"
            /\ \E k \in 3..Len(tex0[file][i]) :
                 /\ tex0[file][i][k] \in DOMAIN wlabel_to_node
                 /\ wlabel_to_node[tex0[file][i][k]] # tex0[file][i][k]
       /\ tex0[file][1] = <<"ws">>
       /\ tex1[file] # tex0[file]

(* ======================== read_latex_file ======================== *)
(* Paths are numbers: 1..k are the files that exist, file 1 is the one      *)
(* read_latex_file is called on, and 0 is a path where no file is.  A file  *)
(* is a sequence of pieces: <<"txt", f>> is text of file f itself,          *)
(* <<"input", q>> a command \input{q}.                                      *)

\* most files in the tree
MaxFiles == 2
\* most \input commands in the tree, all files together
MaxInputs == 3

\* the tree of k files whose \input commands are es, a list of
\* <<file, path named>> in the order they stand in their file
LatexFiles(k, es) ==
  [f \in 1..k |->
     LET mine == SelectSeq(es, LAMBDA e : e[1] = f)
     IN <<<<"txt", f>>>> \o [i \in DOMAIN mine |-> <<"input", mine[i][2]>>]]

\* parse_latex.py:32 and 15-20: read_latex_file calls _read(file, set())
ReadRoot ==
  /\ rpc = "call"
  /\ seen' = {1}
  /\ rstack' = <<[file |-> 1, todo |-> rfiles[1], text |-> <<>>]>>
  /\ rpc' = "read"
  /\ UNCHANGED <<rfiles, rout, rlog>>
  /\ UNCHANGED <<tvars, pvars, svars, ivars, avars, wvars>>

\* parse_latex.py:30: re.sub copies the text up to the next \input command
ReadText ==
  /\ rpc = "read" /\ rstack # <<>>
  /\ Last(rstack).todo # <<>> /\ Head(Last(rstack).todo)[1] = "txt"
  /\ rstack' = [rstack EXCEPT ![Len(rstack)] =
                  [@ EXCEPT !.todo = Tail(@), !.text = Append(@, Head(Last(rstack).todo))]]
  /\ UNCHANGED <<rfiles, seen, rout, rlog, rpc>>
  /\ UNCHANGED <<tvars, pvars, svars, ivars, avars, wvars>>

\* parse_latex.py:21-29 and 16-20: replace_input on the next \input command,
\* up to the start of the nested _read's own substitution
ReadInput ==
  /\ rpc = "read" /\ rstack # <<>>
  /\ Last(rstack).todo # <<>> /\ Head(Last(rstack).todo)[1] = "input"
  /\ LET input_file == Head(Last(rstack).todo)[2]
         caller == [rstack EXCEPT ![Len(rstack)].todo = Tail(@)]
     IN IF input_file \notin DOMAIN rfiles
          THEN /\ rlog' = Append(rlog, <<"not found", input_file>>)
               /\ rstack' = caller
               /\ UNCHANGED seen
          ELSE IF input_file \in seen
            THEN /\ rlog' = Append(rlog, <<"circular", input_file>>)
                 /\ rstack' = caller
                 /\ UNCHANGED seen
            ELSE /\ seen' = seen \cup {input_file}
                 /\ rstack' = Append(caller, [file |-> input_file, todo |-> rfiles[input_file],
                                              text |-> <<>>])
                 /\ UNCHANGED rlog
  /\ UNCHANGED <<rfiles, rout, rpc>>
  /\ UNCHANGED <<tvars, pvars, svars, ivars, avars, wvars>>

\* a _read that works on its own copy of seen: the file is forgotten when
\* its _read returns
ReadReturn_OwnCopyOfSeen ==
  /\ rpc = "read" /\ rstack # <<>> /\ Last(rstack).todo = <<>>
  /\ seen' = seen \ {Last(rstack).file}
  /\ IF Len(rstack) > 1
       THEN /\ rstack' = [Front(rstack) EXCEPT ![Len(rstack) - 1].text = @ \o Last(rstack).text]
            /\ UNCHANGED <<rout, rpc>>
       ELSE /\ rstack' = <<>>
            /\ rout' = Last(rstack).text
            /\ rpc' = "done"
  /\ UNCHANGED <<rfiles, rlog>>
  /\ UNCHANGED <<tvars, pvars, svars, ivars, avars, wvars>>

\* parse_latex.py:31, 29 and 32: _read returns its text, which replaces the
\* \input command in the caller's text or is what read_latex_file returns
ReadReturn ==
  /\ rpc = "read" /\ rstack # <<>> /\ Last(rstack).todo = <<>>
  /\ IF Len(rstack) > 1
       THEN /\ rstack' = [Front(rstack) EXCEPT ![Len(rstack) - 1].text = @ \o Last(rstack).text]
            /\ UNCHANGED <<rout, rpc>>
       ELSE /\ rstack' = <<>>
            /\ rout' = Last(rstack).text
            /\ rpc' = "done"
  /\ UNCHANGED <<rfiles, seen, rlog>>
  /\ UNCHANGED <<tvars, pvars, svars, ivars, avars, wvars>>

NextRead == ReadRoot \/ ReadText \/ ReadInput \/ ReadReturn

InitRead ==
  /\ \E k \in 1..MaxFiles, m \in 0..MaxInputs :
       \E es \in [1..m -> (1..k) \X (0..k)] : rfiles = LatexFiles(k, es)
  /\ seen = {} /\ rstack = <<>> /\ rout = <<>> /\ rlog = <<>> /\ rpc = "call"
  /\ TopoIdle /\ ParseIdle /\ SpliceIdle /\ InsertIdle /\ AttrIdle /\ RewriteIdle

\* the recursion is sequential: weak fairness of its steps
SpecRead == InitRead /\ [][NextRead]_vars /\ WF_vars(NextRead)

(* ---------------- properties of read_latex_file ---------------- *)
\* how often the text of file f stands in source
TimesInlined(source, f) == Cardinality({i \in DOMAIN source : source[i] = <<"txt", f>>})

\* the \input commands of the files in S
RECURSIVE InputCommands(_)
InputCommands(S) ==
  IF S = {} THEN 0
  ELSE LET f == CHOOSE x \in S : TRUE
       IN Cardinality({i \in DOMAIN rfiles[f] : rfiles[f][i][1] = "input"})
            + InputCommands(S \ {f})

ConfigsBeforeLatexEnv(node, add_uses, add_proof_text, add_proof_uses) ==
  (IF node.title # <<>> /\ node.title[1] # ""
     THEN <<[key |-> "title", value |-> node.title[1]]>> ELSE <<>>)
  \o (IF add_uses /\ node.statement.uses # {}
        THEN <<[key |-> "uses", value |-> node.statement.uses]>> ELSE <<>>)
  \o (IF node.proof # <<>>
        THEN (IF add_proof_text THEN <<[key |-> "proof", value |-> "proof text"]>> ELSE <<>>)
             \o (IF add_proof_uses /\ node.proof[1].uses # {}
                   THEN <<[key |-> "proofUses", value |-> node.proof[1].uses]>> ELSE <<>>)
        ELSE <<>>)
  \o (IF node.not_ready THEN <<[key |-> "notReady", value |-> TRUE]>> ELSE <<>>)
  \o (IF node.discussion # <<>> /\ node.discussion[1] # 0
        THEN <<[key |-> "discussion", value |-> node.discussion[1]]>> ELSE <<>>)

\* the test of common.py:64 read as `A and (B or C) and D`
to_lean_attribute_AndBeforeOr(node, add_uses, add_proof_text, add_proof_uses) ==
  ConfigsBeforeLatexEnv(node, add_uses, add_proof_text, add_proof_uses)
  \o (IF /\ node.proof = <<>>
         /\ (node.statement.latex_env # "definition" \/ node.proof # <<>>)
         /\ node.statement.latex_env # "theorem"
        THEN <<[key |-> "latexEnv", value |-> node.statement.latex_env]>> ELSE <<>>)

\* common.py:48-67: the list `configs` (Python reads the test of line 64 as
\* `(A and B) or (C and D)`)
to_lean_attribute(node, add_uses, add_proof_text, add_proof_uses) ==
  ConfigsBeforeLatexEnv(node, add_uses, add_proof_text, add_proof_uses)
  \o (IF \/ (node.proof = <<>> /\ node.statement.latex_env # "definition")
         \/ (node.proof # <<>> /\ node.statement.latex_env # "theorem")
        THEN <<[key |-> "latexEnv", value |-> node.statement.latex_env]>> ELSE <<>>)

\* one call of the method
ToLeanAttribute ==
  /\ apc = "call"
  /\ aout' = to_lean_attribute(anode, aargs.add_uses, aargs.add_proof_text, aargs.add_proof_uses)
  /\ apc' = "done"
  /\ UNCHANGED <<anode, aargs>>
  /\ UNCHANGED <<tvars, pvars, svars, ivars, wvars, rvars>>

NextAttr == ToLeanAttribute

\* the method is about to be called on a node, with the flags of a call
InitAttr ==
  /\ \E title \in {<<>>, <<"">>, <<"T">>}, uses \in SUBSET {"u"},
        proof \in {<<>>} \cup {<<[uses |-> P]>> : P \in SUBSET {"v"}},
        not_ready \in BOOLEAN, discussion \in {<<>>, <<0>>, <<7>>},
        latex_env \in ThmTypes :
       anode = [title |-> title, statement |-> [uses |-> uses, latex_env |-> latex_env],
                proof |-> proof, not_ready |-> not_ready, discussion |-> discussion]
  /\ aargs \in [add_uses : BOOLEAN, add_proof_text : BOOLEAN, add_proof_uses : BOOLEAN]
  /\ aout = <<>> /\ apc = "call"
  /\ TopoIdle /\ ParseIdle /\ SpliceIdle /\ InsertIdle /\ RewriteIdle /\ ReadIdle

SpecAttr == InitAttr /\ [][NextAttr]_vars

(* ---------------- properties of to_lean_attribute ---------------- *)
HasLatexEnvEntry == \E i \in DOMAIN aout : aout[i].key = "latexEnv"

\* C15: the latexEnv entry is left out exactly when the node has no proof and
\* its statement environment is "definition", or has a proof and its
\* statement environment is "theorem"; otherwise it is there, once, and names
\* the statement's environment.
C15_LatexEnvOmission ==
  apc = "done" =>
    /\ ~HasLatexEnvEntry <=>
         \/ (anode.proof = <<>> /\ anode.statement.latex_env = "definition")
         \/ (anode.proof # <<>> /\ anode.statement.latex_env = "theorem")
    /\ \A i, j \in DOMAIN aout :
         aout[i].key = "latexEnv" =>
           /\ aout[i].value = anode.statement.latex_env
           /\ aout[j].key = "latexEnv" => i = j

\* the method has returned for a definition that has a proof: the entry is
\* there and says "definition"
C15_Witness ==
  /\ apc = "done"
  /\ anode.proof # <<>> /\ anode.statement.latex_env = "definition"
  /\ HasLatexEnvEntry

(* ============ topological_sort run twice on one input ============ *)
\* a second run of topological_sort on the input of the first (run 3)
SortSameInput ==
  /\ tpc = "done" /\ run = 1
  /\ TopoCall(input)
  /\ run' = 3
  /\ UNCHANGED <<input, result1>>
  /\ UNCHANGED <<pvars, svars, ivars, avars, wvars, rvars>>

NextTopoRepeat == SortRoot \/ VisitUses \/ VisitReturn \/ SortReturn \/ SortSameInput

SpecTopoRepeat == InitTopo /\ [][NextTopoRepeat]_vars

\* C16: two runs of topological_sort on the same input list return the same
\* order, whatever order the uses sets are iterated in.
C16_SameOrderOnSameInput ==
  (tpc = "done" /\ run = 3) => result = result1

(* ========= insert_docstring_and_attribute, call after call ========= *)
\* most calls of insert_docstring_and_attribute in one process
MaxCalls == 3

\* the declaration texts of the calls: those of DeclShapes, a to_additive
\* marker under a modifier line, under an attribute block, and a declaration
\* with a docstring under two modifier lines
InsertDecls ==
  DeclShapes \cup {<<"m", "\n", "t">>, <<"a", " ", "t", " ", "x">>,
                   <<"m", "\n", "m", "\n", "d", "\n", "x">>}

\* modify_lean.py:28-73: one call
InsertCall ==
  /\ Len(calls) < MaxCalls
  /\ \E decl \in InsertDecls :
       /\ calls' = Append(calls, decl)
       /\ outs' = Append(outs, insert_docstring_and_attribute(decl))
       /\ WarnToAdditive(decl)
  /\ UNCHANGED <<tvars, pvars, svars, avars, wvars, rvars>>

NextInsert == InsertCall

\* the module has been imported: modify_lean.py:26
InitInsert ==
  /\ warned_to_additive = FALSE /\ to_additive_log = 0
  /\ calls = <<>> /\ outs = <<>>
  /\ TopoIdle /\ ParseIdle /\ SpliceIdle /\ AttrIdle /\ RewriteIdle /\ ReadIdle

SpecInsert == InitInsert /\ [][NextInsert]_vars

(* ------- properties of insert_docstring_and_attribute ------- *)
\* the leading run of modifier lines of a declaration text
RECURSIVE LeadingModifiers(_)
LeadingModifiers(decl) ==
  IF Len(decl) >= 2 /\ decl[1] = "m" /\ decl[2] = "\n"
    THEN <<"m", "\n">> \o LeadingModifiers(SubSeq(decl, 3, Len(decl)))
    ELSE <<>>

GeneratedDocstrings == {"/-- new -/", "/-- new, old -/"}
GeneratedAttributes ==
  {"@[blueprint]", "@[old, blueprint]", "(attr := blueprint)", "(attr := old, blueprint)"}

\* C17: what every call returns starts with the leading modifier lines of the
\* text it was given, unchanged, and the generated docstring and attribute
\* come after them, whichever branch was taken.
C17_ModifiersPreserved ==
  \A k \in DOMAIN calls :
    LET mods == LeadingModifiers(calls[k])
        n == Len(mods)
    IN /\ Len(outs[k]) >= n
       /\ SubSeq(outs[k], 1, n) = mods
       /\ \E i, j \in (n + 1)..Len(outs[k]) :
            outs[k][i] \in GeneratedDocstrings /\ outs[k][j] \in GeneratedAttributes

\* the call met a declaration that begins with the to_additive marker: what
\* it returned begins with to_additive (attr := ...)
TookToAdditiveBranch(k) ==
  Len(outs[k]) >= 3 /\ outs[k][1] = "t" /\ outs[k][3] \in GeneratedAttributes

\* C18: after any sequence of calls the to_additive warning has been logged
\* once if some call so far met a to_additive declaration and never otherwise
\* (so it is logged at the first such call and at no later one), and a later
\* call returns for a declaration text what an earlier call returned for it.
C18_WarnedExactlyOnce ==
  /\ to_additive_log = IF \E k \in DOMAIN calls : TookToAdditiveBranch(k) THEN 1 ELSE 0
  /\ warned_to_additive <=> \E k \in DOMAIN calls : TookToAdditiveBranch(k)
  /\ \A i, j \in DOMAIN calls : calls[i] = calls[j] => outs[i] = outs[j]

\* three calls: an ordinary declaration, then two to_additive declarations
C18_Witness ==
  /\ Len(calls) = 3
  /\ ~TookToAdditiveBranch(1) /\ TookToAdditiveBranch(2) /\ TookToAdditiveBranch(3)
  /\ calls[2] = calls[3]
  /\ to_additive_log = 1
====
